---------------------------- MODULE Spec2Model ----------------------------
(***************************************************************************)
(* UDPCommunication: the script command model (UDPCommand), the loop        *)
(* unrolling of ScriptExecutor::doUnrollLoopCommands and the interpreter   *)
(* ScriptExecutor::execute, modelled statement by statement from           *)
(* src/src/scriptexecutor.cpp.                                             *)
(*                                                                         *)
(* A command argument (std::string) is a sequence of one-character         *)
(* strings, so that std::stoi is modelled by what it parses.               *)
(***************************************************************************)
EXTENDS Integers, Sequences, FiniteSets, TLC

\* Longest script the reader hands to doUnrollLoopCommands.
MaxLen == 4

\* Number of slots past udpCommands.end() that can still be read before the
\* access leaves mapped memory.
MaxOverrun == 2

\* Longest script execute is run on.
MaxScript == 3

VARIABLES
    udpCommands,          \* the argument of doUnrollLoopCommands
    iter,                 \* the scan iterator, as a 1-based position; Len+1 is end()
    returnCommands,       \* the vector being built
    loopCommands,         \* the body collected for the current LOOP_START
    loopCount,            \* the repeat count read for the current LOOP_START
    otherLoopStartCount,  \* nested LOOP_START seen while collecting
    pc,                   \* position inside doUnrollLoopCommands
    status,               \* "running", "returned", "threw" or "crashed"
    what,                 \* e.what() of the std::runtime_error thrown
    tail,                 \* what was read from the slots past end(), once read
    oob,                  \* TRUE once *iter was evaluated outside the vector
    udpDuplex,            \* execute's first argument: "null" or "valid"
    isOpen,               \* what udpDuplex->isOpen() answers
    epc,                  \* position inside execute ("idle": not called)
    estatus,              \* how execute ended: "returned", "threw", "crashed"
    ewhat,                \* e.what() of the std::runtime_error execute threw
    m_scriptCommands,     \* ScriptExecutor::m_scriptCommands
    it,                   \* position of the range-for over m_scriptCommands
    events,               \* transport calls, delays and observer calls, in order
    previous              \* how the earlier execute call on this object went

unrollVars == <<udpCommands, iter, returnCommands, loopCommands, loopCount,
                otherLoopStartCount, pc, status, what, tail, oob>>

execVars == <<udpDuplex, isOpen, epc, estatus, ewhat, m_scriptCommands, it, events,
              previous>>

vars == <<unrollVars, execVars>>

---------------------------------------------------------------------------
(* UDPCommand and its enumeration                                          *)

UDPCommandType ==
    {"DELAY_SECONDS", "DELAY_MILLISECONDS", "DELAY_MICROSECONDS", "WRITE",
     "READ", "FLUSH_RX", "FLUSH_TX", "FLUSH_RX_TX", "LOOP_START", "LOOP_END",
     "COMMAND_UNSPECIFIED"}

UDPCommand(commandType, commandArgument) ==
    [commandType |-> commandType, commandArgument |-> commandArgument]

---------------------------------------------------------------------------
(* std::stoi(const std::string &): leading white space is skipped, one     *)
(* optional sign is read, then the longest run of decimal digits; what     *)
(* follows the digits is ignored.  No digit: std::invalid_argument.  A     *)
(* value outside int: std::out_of_range.                                   *)

Digit == {"0", "1", "2", "3", "4", "5", "6", "7", "8", "9"}

DigitValue(c) ==
    CASE c = "0" -> 0 [] c = "1" -> 1 [] c = "2" -> 2 [] c = "3" -> 3
      [] c = "4" -> 4 [] c = "5" -> 5 [] c = "6" -> 6 [] c = "7" -> 7
      [] c = "8" -> 8 [] c = "9" -> 9

RECURSIVE SkipSpace(_)
SkipSpace(s) ==
    IF s # <<>> /\ Head(s) = " " THEN SkipSpace(Tail(s)) ELSE s

RECURSIVE DigitRun(_)
DigitRun(s) ==
    IF s # <<>> /\ Head(s) \in Digit THEN <<Head(s)>> \o DigitRun(Tail(s))
    ELSE <<>>

RECURSIVE Decimal(_, _)
Decimal(ds, acc) ==
    IF ds = <<>> THEN acc ELSE Decimal(Tail(ds), 10 * acc + DigitValue(Head(ds)))

Stoi(str) ==
    LET s      == SkipSpace(str)
        signed == s # <<>> /\ Head(s) \in {"-", "+"}
        neg    == s # <<>> /\ Head(s) = "-"
        ds     == DigitRun(IF signed THEN Tail(s) ELSE s)
        mag    == Decimal(ds, 0)
        v      == IF neg THEN 0 - mag ELSE mag
    IN  IF ds = <<>> THEN [ok |-> FALSE, value |-> 0, what |-> <<"stoi">>]
        ELSE IF v > 2147483647 \/ v < (0 - 2147483647) - 1
             THEN [ok |-> FALSE, value |-> 0, what |-> <<"stoi">>]
             ELSE [ok |-> TRUE, value |-> v, what |-> <<>>]

---------------------------------------------------------------------------
(* The scripts the model runs on                                           *)

ScriptCommands ==
    {UDPCommand("WRITE", <<"A">>),
     UDPCommand("READ", <<>>),
     UDPCommand("DELAY_SECONDS", <<"2">>),
     UDPCommand("DELAY_MILLISECONDS", <<"0">>),
     UDPCommand("LOOP_START", <<"0">>),
     UDPCommand("LOOP_START", <<"2">>),
     UDPCommand("LOOP_START", <<"-", "1">>),
     UDPCommand("LOOP_START", <<"x">>),
     UDPCommand("LOOP_END", <<>>),
     UDPCommand("LOOP_END", <<"1">>),
     UDPCommand("COMMAND_UNSPECIFIED", <<"?">>)}

Scripts == UNION {[1..n -> ScriptCommands] : n \in 0..MaxLen}

\* What a read of a slot past end() can yield when it does not fault.
GarbageCommands ==
    {UDPCommand("DELAY_SECONDS", <<"1">>),
     UDPCommand("WRITE", <<"A">>),
     UDPCommand("LOOP_START", <<>>),
     UDPCommand("LOOP_END", <<>>),
     UDPCommand("COMMAND_UNSPECIFIED", <<>>)}

Unread == UDPCommand("unread", <<>>)

---------------------------------------------------------------------------
(* Iterator access                                                         *)

End == Len(udpCommands) + 1

InRange == iter \in 1..Len(udpCommands)

Slot == iter - Len(udpCommands)

\* The values *iter can have.  Inside the vector it is the element; at or
\* past end() the behaviour is undefined: the read yields whatever the slot
\* holds (the same value on every later read of that slot) or faults.
Deref ==
    IF InRange THEN {udpCommands[iter]}
    ELSE IF Slot \in 1..MaxOverrun
         THEN IF tail[Slot] = Unread THEN GarbageCommands ELSE {tail[Slot]}
         ELSE {}

Remember(cmd) ==
    IF InRange THEN tail ELSE [tail EXCEPT ![Slot] = cmd]

RECURSIVE Repeat(_, _)
Repeat(s, n) == IF n <= 0 THEN <<>> ELSE s \o Repeat(s, n - 1)

NotImplemented(cmd) == <<"UDP_COMMAND_TYPE_NOT_IMPLEMENTED_STRING">> \o cmd.commandArgument

\* IsCopied with the READ branch forgotten.
IsCopiedWithoutRead(commandType) ==
    commandType \in {"WRITE", "DELAY_SECONDS", "DELAY_MILLISECONDS",
                     "DELAY_MICROSECONDS", "FLUSH_RX", "FLUSH_TX", "FLUSH_RX_TX"}

\* The command types the first eight branches append unchanged.
IsCopied(commandType) ==
    commandType \in {"WRITE", "READ", "DELAY_SECONDS", "DELAY_MILLISECONDS",
                     "DELAY_MICROSECONDS", "FLUSH_RX", "FLUSH_TX", "FLUSH_RX_TX"}

---------------------------------------------------------------------------
(* doUnrollLoopCommands                                                    *)

Init ==
    /\ udpCommands \in Scripts
    /\ iter = 1
    /\ returnCommands = <<>>
    /\ loopCommands = <<>>
    /\ loopCount = 0
    /\ otherLoopStartCount = 0
    /\ pc = "for"
    /\ status = "running"
    /\ what = <<>>
    /\ tail = [k \in 1..MaxOverrun |-> Unread]
    /\ oob = FALSE
    /\ udpDuplex = "valid"
    /\ isOpen = TRUE
    /\ epc = "idle"
    /\ estatus = "running"
    /\ ewhat = <<>>
    /\ m_scriptCommands = <<>>
    /\ it = 1
    /\ events = <<>>
    /\ previous = <<>>

\* for (...; iter != udpCommands.end(); ...): the body is entered
ForBody ==
    /\ pc = "for"
    /\ iter # End
    /\ pc' = "body"
    /\ UNCHANGED <<udpCommands, iter, returnCommands, loopCommands, loopCount,
                   otherLoopStartCount, status, what, tail, oob>>
    /\ UNCHANGED execVars

\* iter == udpCommands.end(): return returnCommands
Return ==
    /\ pc = "for"
    /\ iter = End
    /\ pc' = "done"
    /\ status' = "returned"
    /\ UNCHANGED <<udpCommands, iter, returnCommands, loopCommands, loopCount,
                   otherLoopStartCount, what, tail, oob>>
    /\ UNCHANGED execVars

\* PushBack with the element moved out of the input instead of copied: its
\* argument is left empty.
PushBackMovesElement ==
    /\ pc = "body"
    /\ \E cmd \in Deref :
        /\ IsCopied(cmd.commandType)
        /\ returnCommands' = Append(returnCommands, cmd)
        /\ tail' = Remember(cmd)
    /\ udpCommands' = IF InRange
                      THEN [udpCommands EXCEPT ![iter].commandArgument = <<>>]
                      ELSE udpCommands
    /\ iter' = iter + 1
    /\ oob' = (oob \/ ~InRange)
    /\ pc' = "for"
    /\ UNCHANGED <<loopCommands, loopCount, otherLoopStartCount, status, what>>
    /\ UNCHANGED execVars

\* one of the eight copying branches, then the for statement's iter++
PushBack ==
    /\ pc = "body"
    /\ \E cmd \in Deref :
        /\ IsCopied(cmd.commandType)
        /\ returnCommands' = Append(returnCommands, cmd)
        /\ tail' = Remember(cmd)
    /\ iter' = iter + 1
    /\ oob' = (oob \/ ~InRange)
    /\ pc' = "for"
    /\ UNCHANGED <<udpCommands, loopCommands, loopCount, otherLoopStartCount,
                   status, what>>
    /\ UNCHANGED execVars

\* the LOOP_START branch up to the first iter++
LoopStart ==
    /\ pc = "body"
    /\ \E cmd \in Deref :
        /\ cmd.commandType = "LOOP_START"
        /\ tail' = Remember(cmd)
    /\ iter' = iter + 1
    /\ oob' = (oob \/ ~InRange)
    /\ pc' = "count"
    /\ UNCHANGED <<udpCommands, returnCommands, loopCommands, loopCount,
                   otherLoopStartCount, status, what>>
    /\ UNCHANGED execVars

\* the final else branch: the command type is not handled
ThrowNotImplemented ==
    /\ pc = "body"
    /\ \E cmd \in Deref :
        /\ ~IsCopied(cmd.commandType)
        /\ cmd.commandType # "LOOP_START"
        /\ what' = NotImplemented(cmd)
        /\ tail' = Remember(cmd)
    /\ oob' = (oob \/ ~InRange)
    /\ pc' = "done"
    /\ status' = "threw"
    /\ UNCHANGED <<udpCommands, iter, returnCommands, loopCommands, loopCount,
                   otherLoopStartCount>>
    /\ UNCHANGED execVars

\* int loopCount{std::stoi(iter->commandArgument())} and the two locals
ReadLoopCount ==
    /\ pc = "count"
    /\ \E cmd \in Deref :
        LET r == Stoi(cmd.commandArgument) IN
        /\ tail' = Remember(cmd)
        /\ IF r.ok
           THEN /\ loopCount' = r.value
                /\ loopCommands' = <<>>
                /\ otherLoopStartCount' = 0
                /\ pc' = "while"
                /\ UNCHANGED <<status, what>>
           ELSE /\ pc' = "done"
                /\ status' = "threw"
                /\ what' = r.what
                /\ UNCHANGED <<loopCount, loopCommands, otherLoopStartCount>>
    /\ oob' = (oob \/ ~InRange)
    /\ UNCHANGED <<udpCommands, iter, returnCommands>>
    /\ UNCHANGED execVars

\* one turn of the while loop
CollectLoopCommand ==
    /\ pc = "while"
    /\ \E cmd \in Deref :
        /\ cmd.commandType # "LOOP_END"
        /\ otherLoopStartCount = 0
        /\ otherLoopStartCount' =
              IF cmd.commandType = "LOOP_START" THEN otherLoopStartCount + 1
              ELSE otherLoopStartCount
        /\ loopCommands' = Append(loopCommands, cmd)
        /\ tail' = Remember(cmd)
    /\ iter' = iter + 1
    /\ oob' = (oob \/ ~InRange)
    /\ UNCHANGED <<udpCommands, returnCommands, loopCount, pc, status, what>>
    /\ UNCHANGED execVars

\* the while condition fails: iter++ past the loop end, the body is appended
\* loopCount times, then the for statement's iter++
CloseLoop ==
    /\ pc = "while"
    /\ \E cmd \in Deref :
        /\ ~(cmd.commandType # "LOOP_END" /\ otherLoopStartCount = 0)
        /\ tail' = Remember(cmd)
    /\ iter' = iter + 2
    /\ returnCommands' = returnCommands \o Repeat(loopCommands, loopCount)
    /\ oob' = (oob \/ ~InRange)
    /\ pc' = "for"
    /\ UNCHANGED <<udpCommands, loopCommands, loopCount, otherLoopStartCount,
                   status, what>>
    /\ UNCHANGED execVars

\* *iter evaluated at or past end() faults
Crash ==
    /\ pc \in {"body", "count", "while"}
    /\ ~InRange
    /\ pc' = "done"
    /\ status' = "crashed"
    /\ oob' = TRUE
    /\ UNCHANGED <<udpCommands, iter, returnCommands, loopCommands, loopCount,
                   otherLoopStartCount, what, tail>>
    /\ UNCHANGED execVars

Next ==
    \/ ForBody
    \/ Return
    \/ PushBack
    \/ LoopStart
    \/ ThrowNotImplemented
    \/ ReadLoopCount
    \/ CollectLoopCommand
    \/ CloseLoop
    \/ Crash

UnrollSpec == Init /\ [][Next]_vars

---------------------------------------------------------------------------
(* ScriptExecutor::execute                                                 *)

\* Scripts without loops: every kind execute dispatches, delay arguments
\* that parse, that do not parse and that are negative, and an unknown kind.
LinearCommands ==
    {UDPCommand("WRITE", <<"A">>),
     UDPCommand("READ", <<>>),
     UDPCommand("DELAY_SECONDS", <<"2">>),
     UDPCommand("DELAY_SECONDS", <<"x">>),
     UDPCommand("DELAY_MILLISECONDS", <<"-", "1">>),
     UDPCommand("DELAY_MICROSECONDS", <<"2">>),
     UDPCommand("FLUSH_RX", <<>>),
     UDPCommand("FLUSH_TX", <<>>),
     UDPCommand("FLUSH_RX_TX", <<>>),
     UDPCommand("COMMAND_UNSPECIFIED", <<"?">>)}

\* Scripts with loops, one command longer.
LoopCommands ==
    {UDPCommand("LOOP_START", <<"0">>),
     UDPCommand("LOOP_START", <<"2">>),
     UDPCommand("LOOP_END", <<>>),
     UDPCommand("DELAY_SECONDS", <<"2">>),
     UDPCommand("DELAY_SECONDS", <<"x">>),
     UDPCommand("WRITE", <<"A">>),
     UDPCommand("COMMAND_UNSPECIFIED", <<"?">>)}

ExecScripts ==
    UNION {[1..n -> LinearCommands] : n \in 0..MaxScript}
    \cup UNION {[1..n -> LoopCommands] : n \in 0..(MaxScript + 1)}

\* What udpDuplex->readString() can return.
ReadValues == {<<"r">>, <<>>}

\* One observable step of execute: a call on the transport, a delay or a
\* call of an observer.  at is the position in m_scriptCommands of the
\* command being dispatched (0 before the loop).
Event(op, arg, n, ok, at) == [op |-> op, arg |-> arg, n |-> n, ok |-> ok, at |-> at]

IsDelay(commandType) ==
    commandType \in {"DELAY_SECONDS", "DELAY_MILLISECONDS", "DELAY_MICROSECONDS"}

IsFlush(commandType) == commandType \in {"FLUSH_RX", "FLUSH_TX", "FLUSH_RX_TX"}

\* The DelayType handed to printDelayResult.
DelayTypeOf(commandType) ==
    CASE commandType = "DELAY_SECONDS" -> "SECONDS"
      [] commandType = "DELAY_MILLISECONDS" -> "MILLISECONDS"
      [] commandType = "DELAY_MICROSECONDS" -> "MICROSECONDS"

\* The delay primitive called after printDelayResult.
DelayFunction(commandType) ==
    CASE commandType = "DELAY_SECONDS" -> "delaySeconds"
      [] commandType = "DELAY_MILLISECONDS" -> "delayMilliseconds"
      [] commandType = "DELAY_MICROSECONDS" -> "delayMilliseconds"

\* The FlushType handed to printFlushResult.
FlushTypeOf(commandType) ==
    CASE commandType = "FLUSH_RX" -> "RX"
      [] commandType = "FLUSH_TX" -> "TX"
      [] commandType = "FLUSH_RX_TX" -> "RX_TX"

\* FlushFunction with flushRX called whatever the kind.
FlushFunctionAlwaysRX(commandType) == "flushRX"

\* The transport flush called after printFlushResult.
FlushFunction(commandType) ==
    CASE commandType = "FLUSH_RX" -> "flushRX"
      [] commandType = "FLUSH_TX" -> "flushTX"
      [] commandType = "FLUSH_RX_TX" -> "flushRXTX"

ExecInit ==
    /\ udpCommands \in ExecScripts
    /\ iter = 1
    /\ returnCommands = <<>>
    /\ loopCommands = <<>>
    /\ loopCount = 0
    /\ otherLoopStartCount = 0
    /\ pc = "idle"
    /\ status = "running"
    /\ what = <<>>
    /\ tail = [k \in 1..MaxOverrun |-> Unread]
    /\ oob = FALSE
    /\ udpDuplex \in {"null", "valid"}
    /\ isOpen \in BOOLEAN
    /\ (udpDuplex = "null" => ~isOpen)
    /\ epc = "entry"
    /\ estatus = "running"
    /\ ewhat = <<>>
    /\ m_scriptCommands = <<>>
    /\ it = 1
    /\ events = <<>>
    /\ previous = <<>>

\* ThrowNullDuplex with the null check missing: execute goes on to isOpen().
NullDuplexNotChecked ==
    /\ epc = "entry"
    /\ udpDuplex = "null"
    /\ events' = Append(events, Event("isOpen", <<>>, 0, FALSE, 0))
    /\ epc' = "unroll"
    /\ UNCHANGED <<udpDuplex, isOpen, estatus, ewhat, m_scriptCommands, it>>
    /\ UNCHANGED <<unrollVars, previous>>

\* if (!udpDuplex) throw
ThrowNullDuplex ==
    /\ epc = "entry"
    /\ udpDuplex = "null"
    /\ epc' = "done"
    /\ estatus' = "threw"
    /\ ewhat' = <<"NULL_UDP_DUPLEX_PASSED_TO_EXECUTE_STRING">>
    /\ UNCHANGED <<udpDuplex, isOpen, m_scriptCommands, it, events>>
    /\ UNCHANGED <<unrollVars, previous>>

\* udpDuplex->isOpen() is true: openPort is not called
AlreadyOpen ==
    /\ epc = "entry"
    /\ udpDuplex = "valid"
    /\ isOpen
    /\ events' = Append(events, Event("isOpen", <<>>, 0, TRUE, 0))
    /\ epc' = "unroll"
    /\ UNCHANGED <<udpDuplex, isOpen, estatus, ewhat, m_scriptCommands, it>>
    /\ UNCHANGED <<unrollVars, previous>>

\* OpenPort with the exception of openPort swallowed: execute goes on.
OpenPortIgnoresFailure ==
    /\ epc = "entry"
    /\ udpDuplex = "valid"
    /\ ~isOpen
    /\ \E ok \in BOOLEAN :
        /\ events' = events \o <<Event("isOpen", <<>>, 0, FALSE, 0),
                                 Event("openPort", <<>>, 0, ok, 0)>>
        /\ isOpen' = ok
    /\ epc' = "unroll"
    /\ UNCHANGED <<udpDuplex, estatus, ewhat, m_scriptCommands, it>>
    /\ UNCHANGED <<unrollVars, previous>>

\* udpDuplex->isOpen() is false: openPort, whose exception is rethrown
OpenPort ==
    /\ epc = "entry"
    /\ udpDuplex = "valid"
    /\ ~isOpen
    /\ \E ok \in BOOLEAN :
        /\ events' = events \o <<Event("isOpen", <<>>, 0, FALSE, 0),
                                 Event("openPort", <<>>, 0, ok, 0)>>
        /\ IF ok
           THEN /\ isOpen' = TRUE
                /\ epc' = "unroll"
                /\ UNCHANGED <<estatus, ewhat>>
           ELSE /\ epc' = "done"
                /\ estatus' = "threw"
                /\ ewhat' = <<"openPort">>
                /\ UNCHANGED isOpen
    /\ UNCHANGED <<udpDuplex, m_scriptCommands, it>>
    /\ UNCHANGED <<unrollVars, previous>>

\* CallUnroll with printLoopResult called when the script holds a loop.
CallUnrollReportsLoop ==
    /\ epc = "unroll"
    /\ pc = "idle"
    /\ pc' = "for"
    /\ events' = IF \E k \in 1..Len(udpCommands) : udpCommands[k].commandType = "LOOP_START"
                 THEN Append(events, Event("printLoopResult", <<"START">>, 0, TRUE, 0))
                 ELSE events
    /\ UNCHANGED <<udpCommands, iter, returnCommands, loopCommands, loopCount,
                   otherLoopStartCount, status, what, tail, oob>>
    /\ UNCHANGED <<udpDuplex, isOpen, epc, estatus, ewhat, m_scriptCommands, it,
                   previous>>

\* the call doUnrollLoopCommands(*this->m_scriptReader->commands())
CallUnroll ==
    /\ epc = "unroll"
    /\ pc = "idle"
    /\ pc' = "for"
    /\ UNCHANGED <<udpCommands, iter, returnCommands, loopCommands, loopCount,
                   otherLoopStartCount, status, what, tail, oob>>
    /\ UNCHANGED execVars

\* AssignScriptCommands with the loop starting at the second command.
AssignScriptCommandsSkipFirst ==
    /\ epc = "unroll"
    /\ pc = "done"
    /\ status = "returned"
    /\ m_scriptCommands' = returnCommands
    /\ it' = 2
    /\ epc' = "loop"
    /\ UNCHANGED <<udpDuplex, isOpen, estatus, ewhat, events>>
    /\ UNCHANGED <<unrollVars, previous>>

\* AssignScriptCommands with the returned list appended to what
\* m_scriptCommands held, instead of replacing it.
AssignScriptCommandsAppends ==
    /\ epc = "unroll"
    /\ pc = "done"
    /\ status = "returned"
    /\ m_scriptCommands' = m_scriptCommands \o returnCommands
    /\ it' = 1
    /\ epc' = "loop"
    /\ UNCHANGED <<udpDuplex, isOpen, estatus, ewhat, events>>
    /\ UNCHANGED <<unrollVars, previous>>

\* this->m_scriptCommands = the returned list; the range-for begins
AssignScriptCommands ==
    /\ epc = "unroll"
    /\ pc = "done"
    /\ status = "returned"
    /\ m_scriptCommands' = returnCommands
    /\ it' = 1
    /\ epc' = "loop"
    /\ UNCHANGED <<udpDuplex, isOpen, estatus, ewhat, events>>
    /\ UNCHANGED <<unrollVars, previous>>

\* UnrollThrew with the exception caught and what had been expanded so far
\* dispatched.
UnrollThrewDispatchesPartial ==
    /\ epc = "unroll"
    /\ pc = "done"
    /\ status = "threw"
    /\ m_scriptCommands' = returnCommands
    /\ it' = 1
    /\ epc' = "loop"
    /\ UNCHANGED <<udpDuplex, isOpen, estatus, ewhat, events>>
    /\ UNCHANGED <<unrollVars, previous>>

\* the exception of doUnrollLoopCommands leaves execute (line 42 is outside
\* the try block)
UnrollThrew ==
    /\ epc = "unroll"
    /\ pc = "done"
    /\ status = "threw"
    /\ epc' = "done"
    /\ estatus' = "threw"
    /\ ewhat' = what
    /\ UNCHANGED <<udpDuplex, isOpen, m_scriptCommands, it, events>>
    /\ UNCHANGED <<unrollVars, previous>>

\* doUnrollLoopCommands faulted
UnrollCrashed ==
    /\ epc = "unroll"
    /\ pc = "done"
    /\ status = "crashed"
    /\ epc' = "done"
    /\ estatus' = "crashed"
    /\ UNCHANGED <<udpDuplex, isOpen, ewhat, m_scriptCommands, it, events>>
    /\ UNCHANGED <<unrollVars, previous>>

Dispatching == epc = "loop" /\ it \in 1..Len(m_scriptCommands)

\* ExecWrite with printTxResult called before writeString.
ExecWriteReportsFirst ==
    /\ epc = "loop" /\ it \in 1..Len(m_scriptCommands)
    /\ m_scriptCommands[it].commandType = "WRITE"
    /\ LET arg == m_scriptCommands[it].commandArgument IN
       \E ok \in BOOLEAN :
        /\ events' = events \o <<Event("printTxResult", arg, 0, TRUE, it),
                                 Event("writeString", arg, 0, ok, it)>>
        /\ IF ok
           THEN /\ it' = it + 1
                /\ UNCHANGED <<epc, estatus, ewhat>>
           ELSE /\ epc' = "done"
                /\ estatus' = "threw"
                /\ ewhat' = <<"writeString">>
                /\ UNCHANGED it
    /\ UNCHANGED <<udpDuplex, isOpen, m_scriptCommands>>
    /\ UNCHANGED <<unrollVars, previous>>

\* WRITE: writeString, then printTxResult
ExecWrite ==
    /\ Dispatching
    /\ m_scriptCommands[it].commandType = "WRITE"
    /\ LET arg == m_scriptCommands[it].commandArgument IN
       \E ok \in BOOLEAN :
        IF ok
        THEN /\ events' = events \o <<Event("writeString", arg, 0, TRUE, it),
                                      Event("printTxResult", arg, 0, TRUE, it)>>
             /\ it' = it + 1
             /\ UNCHANGED <<epc, estatus, ewhat>>
        ELSE /\ events' = Append(events, Event("writeString", arg, 0, FALSE, it))
             /\ epc' = "done"
             /\ estatus' = "threw"
             /\ ewhat' = <<"writeString">>
             /\ UNCHANGED it
    /\ UNCHANGED <<udpDuplex, isOpen, m_scriptCommands>>
    /\ UNCHANGED <<unrollVars, previous>>

\* ExecRead with the exception of readString swallowed: the loop goes on.
ExecReadIgnoresFailure ==
    /\ epc = "loop" /\ it \in 1..Len(m_scriptCommands)
    /\ m_scriptCommands[it].commandType = "READ"
    /\ \/ \E v \in ReadValues :
            events' = events \o <<Event("readString", v, 0, TRUE, it),
                                  Event("printRxResult", v, 0, TRUE, it)>>
       \/ events' = Append(events, Event("readString", <<>>, 0, FALSE, it))
    /\ it' = it + 1
    /\ UNCHANGED <<udpDuplex, isOpen, epc, estatus, ewhat, m_scriptCommands>>
    /\ UNCHANGED <<unrollVars, previous>>

\* READ: printRxResult(udpDuplex->readString())
ExecRead ==
    /\ Dispatching
    /\ m_scriptCommands[it].commandType = "READ"
    /\ \/ \E v \in ReadValues :
            /\ events' = events \o <<Event("readString", v, 0, TRUE, it),
                                     Event("printRxResult", v, 0, TRUE, it)>>
            /\ it' = it + 1
            /\ UNCHANGED <<epc, estatus, ewhat>>
       \/ /\ events' = Append(events, Event("readString", <<>>, 0, FALSE, it))
          /\ epc' = "done"
          /\ estatus' = "threw"
          /\ ewhat' = <<"readString">>
          /\ UNCHANGED it
    /\ UNCHANGED <<udpDuplex, isOpen, m_scriptCommands>>
    /\ UNCHANGED <<unrollVars, previous>>

\* ExecDelay with the delay made before printDelayResult is called.
ExecDelaySleepsFirst ==
    /\ epc = "loop" /\ it \in 1..Len(m_scriptCommands)
    /\ IsDelay(m_scriptCommands[it].commandType)
    /\ LET type == m_scriptCommands[it].commandType
           r    == Stoi(m_scriptCommands[it].commandArgument)
       IN  IF r.ok
           THEN /\ events' = events \o
                     <<Event(DelayFunction(type), <<>>, r.value, TRUE, it),
                       Event("printDelayResult", <<DelayTypeOf(type)>>, r.value, TRUE, it)>>
                /\ it' = it + 1
                /\ UNCHANGED <<epc, estatus, ewhat>>
           ELSE /\ epc' = "done"
                /\ estatus' = "threw"
                /\ ewhat' = r.what
                /\ UNCHANGED <<it, events>>
    /\ UNCHANGED <<udpDuplex, isOpen, m_scriptCommands>>
    /\ UNCHANGED <<unrollVars, previous>>

\* ExecDelay with the argument converted as atoi does: 0 when it is not a
\* number, no exception.
ExecDelayParsesLeniently ==
    /\ epc = "loop" /\ it \in 1..Len(m_scriptCommands)
    /\ IsDelay(m_scriptCommands[it].commandType)
    /\ LET type == m_scriptCommands[it].commandType
           r    == Stoi(m_scriptCommands[it].commandArgument)
       IN  events' = events \o
              <<Event("printDelayResult", <<DelayTypeOf(type)>>, r.value, TRUE, it),
                Event(DelayFunction(type), <<>>, r.value, TRUE, it)>>
    /\ it' = it + 1
    /\ UNCHANGED <<udpDuplex, isOpen, epc, estatus, ewhat, m_scriptCommands>>
    /\ UNCHANGED <<unrollVars, previous>>

\* DELAY_*: printDelayResult(unit, std::stoi(argument)), then the delay
ExecDelay ==
    /\ Dispatching
    /\ IsDelay(m_scriptCommands[it].commandType)
    /\ LET type == m_scriptCommands[it].commandType
           r    == Stoi(m_scriptCommands[it].commandArgument)
       IN  IF r.ok
           THEN /\ events' = events \o
                     <<Event("printDelayResult", <<DelayTypeOf(type)>>, r.value, TRUE, it),
                       Event(DelayFunction(type), <<>>, r.value, TRUE, it)>>
                /\ it' = it + 1
                /\ UNCHANGED <<epc, estatus, ewhat>>
           ELSE /\ epc' = "done"
                /\ estatus' = "threw"
                /\ ewhat' = r.what
                /\ UNCHANGED <<it, events>>
    /\ UNCHANGED <<udpDuplex, isOpen, m_scriptCommands>>
    /\ UNCHANGED <<unrollVars, previous>>

\* FLUSH_*: printFlushResult(kind), then the transport flush
ExecFlush ==
    /\ Dispatching
    /\ IsFlush(m_scriptCommands[it].commandType)
    /\ LET type == m_scriptCommands[it].commandType IN
       \E ok \in BOOLEAN :
        /\ events' = events \o
              <<Event("printFlushResult", <<FlushTypeOf(type)>>, 0, TRUE, it),
                Event(FlushFunction(type), <<>>, 0, ok, it)>>
        /\ IF ok
           THEN /\ it' = it + 1
                /\ UNCHANGED <<epc, estatus, ewhat>>
           ELSE /\ epc' = "done"
                /\ estatus' = "threw"
                /\ ewhat' = <<FlushFunction(type)>>
                /\ UNCHANGED it
    /\ UNCHANGED <<udpDuplex, isOpen, m_scriptCommands>>
    /\ UNCHANGED <<unrollVars, previous>>

\* the final else branch of the dispatch
ExecNotImplemented ==
    /\ Dispatching
    /\ LET type == m_scriptCommands[it].commandType IN
       ~(type \in {"WRITE", "READ"} \/ IsDelay(type) \/ IsFlush(type))
    /\ epc' = "done"
    /\ estatus' = "threw"
    /\ ewhat' = NotImplemented(m_scriptCommands[it])
    /\ UNCHANGED <<udpDuplex, isOpen, m_scriptCommands, it, events>>
    /\ UNCHANGED <<unrollVars, previous>>

\* the range-for is over: execute returns
ExecReturn ==
    /\ epc = "loop"
    /\ it = Len(m_scriptCommands) + 1
    /\ epc' = "done"
    /\ estatus' = "returned"
    /\ UNCHANGED <<udpDuplex, isOpen, ewhat, m_scriptCommands, it, events>>
    /\ UNCHANGED <<unrollVars, previous>>

ExecNext ==
    \/ ThrowNullDuplex
    \/ AlreadyOpen
    \/ OpenPort
    \/ CallUnroll
    \/ Next
    \/ AssignScriptCommands
    \/ UnrollThrew
    \/ UnrollCrashed
    \/ ExecWrite
    \/ ExecRead
    \/ ExecDelay
    \/ ExecFlush
    \/ ExecNotImplemented
    \/ ExecReturn

ExecSpec == ExecInit /\ [][ExecNext]_vars

---------------------------------------------------------------------------
(* A second execute call on the same ScriptExecutor                        *)

\* execute is called again after a call that returned or threw, with the
\* same reader and the same transport: the members m_scriptReader and
\* m_scriptCommands are what the earlier call left, the transport is as
\* open as it was left, every local starts afresh.  What the memory past
\* the vector holds is not known again.
ExecuteAgain ==
    /\ epc = "done"
    /\ estatus \in {"returned", "threw"}
    /\ previous = <<>>
    /\ previous' = <<[events |-> events, estatus |-> estatus, ewhat |-> ewhat,
                      oob |-> oob]>>
    /\ epc' = "entry"
    /\ estatus' = "running"
    /\ ewhat' = <<>>
    /\ it' = 1
    /\ events' = <<>>
    /\ iter' = 1
    /\ returnCommands' = <<>>
    /\ loopCommands' = <<>>
    /\ loopCount' = 0
    /\ otherLoopStartCount' = 0
    /\ pc' = "idle"
    /\ status' = "running"
    /\ what' = <<>>
    /\ tail' = [k \in 1..MaxOverrun |-> Unread]
    /\ oob' = FALSE
    /\ UNCHANGED <<udpCommands, udpDuplex, isOpen, m_scriptCommands>>

RepeatNext ==
    \/ ExecNext
    \/ ExecuteAgain

RepeatSpec == ExecInit /\ [][RepeatNext]_vars

---------------------------------------------------------------------------
(* Vocabulary of the properties                                            *)

Done == pc = "done"

Returned == Done /\ status = "returned"

Threw == Done /\ status = "threw"

IsLoopStart(c) == c.commandType = "LOOP_START"

IsLoopEnd(c) == c.commandType = "LOOP_END"

MarkerFree(s) == \A i \in 1..Len(s) : ~IsLoopStart(s[i]) /\ ~IsLoopEnd(s[i])

\* Neither a marker nor COMMAND_UNSPECIFIED.
Ordinary(s) ==
    \A i \in 1..Len(s) :
        s[i].commandType \in UDPCommandType \ {"LOOP_START", "LOOP_END", "COMMAND_UNSPECIFIED"}

\* The argument is a base-10 integer >= 0.
ValidCount(c) == Stoi(c.commandArgument).ok /\ Stoi(c.commandArgument).value >= 0

CountOf(c) == Stoi(c.commandArgument).value

LoopStarts(s) == {i \in 1..Len(s) : IsLoopStart(s[i])}

LoopEnds(s) == {i \in 1..Len(s) : IsLoopEnd(s[i])}

\* Exactly one LOOP_START, exactly one LOOP_END after it, all else ordinary.
SingleLoop(s) ==
    /\ Cardinality(LoopStarts(s)) = 1
    /\ Cardinality(LoopEnds(s)) = 1
    /\ \A i \in LoopStarts(s) : \A j \in LoopEnds(s) : i < j
    /\ \A i \in 1..Len(s) : i \notin LoopStarts(s) \cup LoopEnds(s) => Ordinary(<<s[i]>>)

StartOf(s) == CHOOSE i \in LoopStarts(s) : TRUE

EndOf(s) == CHOOSE j \in LoopEnds(s) : TRUE

PrefixOf(s) == SubSeq(s, 1, StartOf(s) - 1)

BodyOf(s) == SubSeq(s, StartOf(s) + 1, EndOf(s) - 1)

SuffixOf(s) == SubSeq(s, EndOf(s) + 1, Len(s))

\* Number of loops open after the first k commands.
RECURSIVE DepthAfter(_, _)
DepthAfter(s, k) ==
    IF k = 0 THEN 0
    ELSE DepthAfter(s, k - 1)
         + (IF IsLoopStart(s[k]) THEN 1 ELSE IF IsLoopEnd(s[k]) THEN -1 ELSE 0)

Balanced(s) ==
    /\ \A k \in 1..Len(s) : DepthAfter(s, k) >= 0
    /\ DepthAfter(s, Len(s)) = 0

\* Properly nested, every count valid, everything else ordinary.
WellFormed(s) ==
    /\ Balanced(s)
    /\ \A i \in 1..Len(s) :
          IF IsLoopStart(s[i]) THEN ValidCount(s[i])
          ELSE IsLoopEnd(s[i]) \/ Ordinary(<<s[i]>>)

NestingDepth(s) ==
    CHOOSE d \in 0..Len(s) :
        /\ \E k \in 0..Len(s) : DepthAfter(s, k) = d
        /\ \A k \in 0..Len(s) : DepthAfter(s, k) <= d

\* A LOOP_START with no LOOP_END after it.
HasUnmatchedLoopStart(s) ==
    \E i \in LoopStarts(s) : \A j \in LoopEnds(s) : j < i

\* A LOOP_END met while no loop is open.
HasStrayLoopEnd(s) == \E k \in 1..Len(s) : DepthAfter(s, k) < 0

---------------------------------------------------------------------------
(* The innermost-first expansion of the specification (section 4.2)        *)

containsLoopStart(commands) ==
    \E i \in 1..Len(commands) : commands[i].commandType = "LOOP_START"

\* <<start, end>>: the last LOOP_START and the first LOOP_END after it
\* (end = 0 when there is none).
findInnerLoopIndexes(commands) ==
    LET start == CHOOSE i \in LoopStarts(commands) :
                     \A k \in LoopStarts(commands) : k <= i
        after == {j \in LoopEnds(commands) : j > start}
    IN  <<start, IF after = {} THEN 0
                 ELSE CHOOSE j \in after : \A k \in after : j <= k>>

RECURSIVE ReferenceExpansion(_)
ReferenceExpansion(commands) ==
    IF ~containsLoopStart(commands) THEN commands
    ELSE LET span  == findInnerLoopIndexes(commands)
             start == span[1]
             end   == span[2]
         IN  IF end = 0 THEN commands
             ELSE ReferenceExpansion(
                      SubSeq(commands, 1, start - 1)
                      \o Repeat(SubSeq(commands, start + 1, end - 1),
                                CountOf(commands[start]))
                      \o SubSeq(commands, end + 1, Len(commands)))

---------------------------------------------------------------------------
(* Properties                                                              *)

\* C1: for [LoopStart(n)] ++ B ++ [LoopEnd], B ordinary and not empty, n >= 0
\* the integer in the LoopStart's own argument, doUnrollLoopCommands returns
\* exactly B repeated n times.
C1_SingleLoopIsBodyRepeated ==
    (/\ Done
     /\ SingleLoop(udpCommands)
     /\ BodyOf(udpCommands) # <<>>
     /\ PrefixOf(udpCommands) = <<>>
     /\ SuffixOf(udpCommands) = <<>>
     /\ ValidCount(udpCommands[StartOf(udpCommands)]))
    => /\ status = "returned"
       /\ returnCommands =
             Repeat(BodyOf(udpCommands), CountOf(udpCommands[StartOf(udpCommands)]))

\* C2: for P ++ [LoopStart(n)] ++ B ++ [LoopEnd] ++ S with P, B, S ordinary,
\* B and S not empty, the result is P ++ (B repeated n times) ++ S: the
\* commands outside the loop, the one right after LoopEnd included, are kept
\* once and in place.
C2_CommandsOutsideLoopKept ==
    (/\ Done
     /\ SingleLoop(udpCommands)
     /\ BodyOf(udpCommands) # <<>>
     /\ SuffixOf(udpCommands) # <<>>
     /\ ValidCount(udpCommands[StartOf(udpCommands)]))
    => /\ status = "returned"
       /\ returnCommands =
             PrefixOf(udpCommands)
             \o Repeat(BodyOf(udpCommands), CountOf(udpCommands[StartOf(udpCommands)]))
             \o SuffixOf(udpCommands)

\* C3: for a well-formed script with loops nested to depth 2 or more, the
\* result equals the innermost-first reference expansion.
C3_NestedMatchesReference ==
    (/\ Done
     /\ WellFormed(udpCommands)
     /\ NestingDepth(udpCommands) >= 2)
    => /\ status = "returned"
       /\ returnCommands = ReferenceExpansion(udpCommands)

\* C4: when doUnrollLoopCommands returns normally on a properly nested
\* script, the result holds no LoopStart and no LoopEnd.
C4_ResultHasNoMarkers ==
    (Returned /\ ~oob /\ Balanced(udpCommands)) => MarkerFree(returnCommands)

C6_ZeroCountDropsBody ==
    (/\ Done
     /\ Len(udpCommands) >= 3
     /\ IsLoopStart(udpCommands[1])
     /\ ValidCount(udpCommands[1])
     /\ CountOf(udpCommands[1]) = 0
     /\ IsLoopEnd(udpCommands[Len(udpCommands)])
     /\ MarkerFree(SubSeq(udpCommands, 2, Len(udpCommands) - 1)))
    => (status = "returned" /\ returnCommands = <<>>)

\* C7: in P ++ [LoopStart(n), LoopEnd], P ordinary and n >= 0, the loop with
\* the empty body expands successfully and contributes no command.
C7_EmptyBodyExpandsToNothing ==
    (/\ Done
     /\ SingleLoop(udpCommands)
     /\ BodyOf(udpCommands) = <<>>
     /\ SuffixOf(udpCommands) = <<>>
     /\ ValidCount(udpCommands[StartOf(udpCommands)]))
    => (status = "returned" /\ returnCommands = PrefixOf(udpCommands))

\* C8: on a script with a LoopStart that no LoopEnd follows, the scan never
\* reads at or past the end, never moves beyond the end, and the call ends
\* by throwing.
C8_UnmatchedLoopStartFails ==
    HasUnmatchedLoopStart(udpCommands)
    => /\ ~oob
       /\ iter <= End
       /\ (Done => status = "threw")

\* C9: a script with a LoopEnd that closes no open loop makes
\* doUnrollLoopCommands throw.
C9_StrayLoopEndFails ==
    (Done /\ ~oob /\ HasStrayLoopEnd(udpCommands)) => status = "threw"

\* C10: a LoopStart whose argument is not a non-negative integer (not
\* numeric, negative, the -1 sentinel) makes doUnrollLoopCommands throw.
C10_InvalidCountFails ==
    (/\ Done
     /\ ~oob
     /\ SingleLoop(udpCommands)
     /\ ~ValidCount(udpCommands[StartOf(udpCommands)]))
    => status = "threw"


\* C11: on every finite script doUnrollLoopCommands ends, and it ends either
\* by returning a list or by throwing an error.
C11_EndsByReturnOrError ==
    Done => status \in {"returned", "threw"}

---------------------------------------------------------------------------
(* Vocabulary of the properties of execute                                 *)

EDone == epc = "done"

EReturned == EDone /\ estatus = "returned"

EThrew == EDone /\ estatus = "threw"

\* The places in events of what the command at position k caused.
EventsOf(k) == {i \in 1..Len(events) : events[i].at = k}

OpsAt(k, op) == {i \in EventsOf(k) : events[i].op = op}

DelayKinds == {"DELAY_SECONDS", "DELAY_MILLISECONDS", "DELAY_MICROSECONDS"}

FlushKinds == {"FLUSH_RX", "FLUSH_TX", "FLUSH_RX_TX"}

DelayOps == {"delaySeconds", "delayMilliseconds", "delayMicroseconds"}

FlushOps == {"flushRX", "flushTX", "flushRXTX"}

\* The unit a delay kind names.
UnitOf(commandType) ==
    CASE commandType = "DELAY_SECONDS" -> "SECONDS"
      [] commandType = "DELAY_MILLISECONDS" -> "MILLISECONDS"
      [] commandType = "DELAY_MICROSECONDS" -> "MICROSECONDS"

\* The delay primitive of a unit.
PrimitiveOf(unit) ==
    CASE unit = "SECONDS" -> "delaySeconds"
      [] unit = "MILLISECONDS" -> "delayMilliseconds"
      [] unit = "MICROSECONDS" -> "delayMicroseconds"

\* The pairs <<first action, second action>> a command of a kind may cause.
ActionsOf(commandType) ==
    CASE commandType = "WRITE" -> {<<"writeString", "printTxResult">>}
      [] commandType = "READ" -> {<<"readString", "printRxResult">>}
      [] commandType \in DelayKinds -> {<<"printDelayResult", d>> : d \in DelayOps}
      [] commandType \in FlushKinds -> {<<"printFlushResult", f>> : f \in FlushOps}
      [] OTHER -> {}

\* The command at position k is a delay whose argument is / is not a number.
ParsesAt(k) == Stoi(m_scriptCommands[k].commandArgument).ok

DelayValueAt(k) == Stoi(m_scriptCommands[k].commandArgument).value

---------------------------------------------------------------------------
(* Properties of execute                                                   *)

\* C12: with a null transport execute throws the null-duplex error at once:
\* no transport call, no delay, no observer call, and doUnrollLoopCommands
\* is not called.
C12_NullDuplexFailsAtOnce ==
    udpDuplex = "null"
    => /\ events = <<>>
       /\ pc = "idle"
       /\ m_scriptCommands = <<>>
       /\ epc \in {"entry", "done"}
       /\ (EDone => /\ estatus = "threw"
                    /\ ewhat = <<"NULL_UDP_DUPLEX_PASSED_TO_EXECUTE_STRING">>)

\* execute has ended on a null transport and a script that holds commands.
C12_Witness ==
    /\ udpDuplex = "null"
    /\ EDone
    /\ Len(udpCommands) >= 2

\* C13: a writeString that fails is the last thing execute does, execute
\* throws that failure and printTxResult is not called for the command; a
\* writeString that succeeds is followed at once by one printTxResult with
\* the command's argument, and printTxResult is called nowhere else.
C13_TxReportedOnlyAfterWrite ==
    /\ \A i \in 1..Len(events) :
        /\ (events[i].op = "writeString" /\ ~events[i].ok)
           => /\ i = Len(events)
              /\ EThrew
              /\ ewhat = <<"writeString">>
              /\ OpsAt(events[i].at, "printTxResult") = {}
        /\ (events[i].op = "writeString" /\ events[i].ok)
           => /\ i < Len(events)
              /\ events[i + 1].op = "printTxResult"
              /\ events[i + 1].at = events[i].at
              /\ events[i + 1].arg = m_scriptCommands[events[i].at].commandArgument
        /\ events[i].op = "printTxResult"
           => /\ i > 1
              /\ events[i - 1].op = "writeString"
              /\ events[i - 1].ok
              /\ events[i - 1].at = events[i].at
    /\ \A k \in 1..Len(m_scriptCommands) :
        /\ Cardinality(OpsAt(k, "printTxResult")) <= 1
        /\ Cardinality(OpsAt(k, "writeString")) <= 1
        /\ (m_scriptCommands[k].commandType = "WRITE" /\ (k < it \/ EReturned))
           => Cardinality(OpsAt(k, "printTxResult")) = 1

\* A write succeeded and was reported, then a later write failed.
C13_Witness ==
    /\ EThrew
    /\ Len(events) >= 3
    /\ events[Len(events)].op = "writeString"
    /\ ~events[Len(events)].ok
    /\ \E i \in 1..Len(events) : events[i].op = "printTxResult"

\* C14: when execute returns, every command of the expanded list has been
\* dispatched exactly once and in list order: the transport calls, delays
\* and observer calls are, command after command, the two actions of its
\* kind.
C14_DispatchedOnceInOrder ==
    EReturned
    => /\ m_scriptCommands = returnCommands
       /\ Cardinality(EventsOf(0)) \in {1, 2}
       /\ \A i \in EventsOf(0) : i <= Cardinality(EventsOf(0))
       /\ Len(events) = Cardinality(EventsOf(0)) + 2 * Len(m_scriptCommands)
       /\ \A k \in 1..Len(m_scriptCommands) :
             LET first == Cardinality(EventsOf(0)) + 2 * k - 1 IN
             /\ events[first].at = k
             /\ events[first + 1].at = k
             /\ <<events[first].op, events[first + 1].op>>
                    \in ActionsOf(m_scriptCommands[k].commandType)

\* execute returned after dispatching three commands, the first two of
\* different kinds.
C14_Witness ==
    /\ EReturned
    /\ Len(m_scriptCommands) = 3
    /\ m_scriptCommands[1].commandType # m_scriptCommands[2].commandType
    /\ Len(events) >= 7

\* C15: once a command has failed nothing more happens: a failed transport
\* call is the last event and is not repeated, execute has thrown, every
\* command before the failing one had succeeded and no command after it
\* has caused anything.
C15_NothingAfterFailure ==
    /\ \A i \in 1..Len(events) :
          ~events[i].ok /\ events[i].op # "isOpen"
          => (i = Len(events) /\ EThrew)
    /\ (estatus = "threw" => epc = "done")
    /\ (EThrew /\ m_scriptCommands # <<>>)
       => /\ it \in 1..Len(m_scriptCommands)
          /\ \A i \in 1..Len(events) : events[i].at <= it
          /\ Cardinality(EventsOf(it)) <= 2
          /\ \A i \in EventsOf(it) : ~events[i].ok \/ events[i].op = "printFlushResult"
          /\ \A k \in 1..(it - 1) :
                /\ Cardinality(EventsOf(k)) = 2
                /\ \A i \in EventsOf(k) : events[i].ok

\* execute threw at the second of at least three commands.
C15_Witness ==
    /\ EThrew
    /\ it = 2
    /\ Len(m_scriptCommands) >= 3
    /\ EventsOf(1) # {}

\* The cause of a failure at position i of a marker-free script: a failed
\* transport call, a delay argument that does not parse, an unknown kind.
FailureCauseAt(i) ==
    \/ \E j \in EventsOf(i) : ~events[j].ok
    \/ /\ udpCommands[i].commandType \in DelayKinds
       /\ ~Stoi(udpCommands[i].commandArgument).ok
       /\ ewhat = <<"stoi">>
    \/ /\ udpCommands[i].commandType = "COMMAND_UNSPECIFIED"
       /\ ewhat = NotImplemented(udpCommands[i])

\* C16: when execute fails at position i of a script without loops, for any
\* of the three causes, every command before i has been dispatched (its two
\* actions have taken place).
C16_EffectsBeforeFailureTookPlace ==
    (/\ EThrew
     /\ MarkerFree(udpCommands)
     /\ \E j \in 1..Len(events) : events[j].op \in {"isOpen", "openPort"} /\ events[j].ok)
    => \E i \in 1..Len(udpCommands) :
          /\ FailureCauseAt(i)
          /\ \A k \in 1..(i - 1) : Cardinality(EventsOf(k)) = 2

\* C17: for a delay command whose argument parses to d, printDelayResult is
\* called exactly once, with the unit of the kind and d, and immediately
\* before the delay of that command; no delay is made without it.
C17_DelayReportedOnceBeforeSleeping ==
    /\ \A k \in 1..Len(m_scriptCommands) :
        (/\ m_scriptCommands[k].commandType \in DelayKinds
         /\ ParsesAt(k)
         /\ (k < it \/ EReturned))
        => /\ Cardinality(OpsAt(k, "printDelayResult")) = 1
           /\ \A i \in OpsAt(k, "printDelayResult") :
                 /\ events[i].arg = <<UnitOf(m_scriptCommands[k].commandType)>>
                 /\ events[i].n = DelayValueAt(k)
                 /\ i < Len(events)
                 /\ events[i + 1].op \in DelayOps
                 /\ events[i + 1].at = k
    /\ \A i \in 1..Len(events) :
        events[i].op \in DelayOps
        => /\ i > 1
           /\ events[i - 1].op = "printDelayResult"
           /\ events[i - 1].at = events[i].at

\* A delay command has been reported and made, and execute returned.
C17_Witness ==
    /\ EReturned
    /\ \E i \in 1..Len(events) : events[i].op = "printDelayResult" /\ events[i].n = 2

\* C18: the delay of a delay command is made with the primitive of the
\* command's unit, the unit handed to printDelayResult, for the parsed
\* duration.
C18_DelayUsesUnitOfKind ==
    \A i \in 1..Len(events) :
        events[i].op \in DelayOps
        => /\ events[i].op = PrimitiveOf(UnitOf(m_scriptCommands[events[i].at].commandType))
           /\ events[i].n = DelayValueAt(events[i].at)

\* C19: a delay command whose argument is not a number makes execute throw
\* the conversion error at that command: printDelayResult is not called for
\* it, no delay is made for it, and execute does not get past it.
C19_NonNumericDelayFails ==
    /\ \A k \in 1..Len(m_scriptCommands) :
        (m_scriptCommands[k].commandType \in DelayKinds /\ ~ParsesAt(k))
        => /\ EventsOf(k) = {}
           /\ it <= k
           /\ estatus # "returned"
           /\ (EDone /\ it = k) => (estatus = "threw" /\ ewhat = <<"stoi">>)
    /\ (/\ MarkerFree(udpCommands)
        /\ \E k \in 1..Len(udpCommands) :
              /\ udpCommands[k].commandType \in DelayKinds
              /\ ~Stoi(udpCommands[k].commandArgument).ok)
       => estatus # "returned"

\* execute threw at a delay command with a non-numeric argument, after
\* dispatching the command before it.
C19_Witness ==
    /\ EThrew
    /\ it = 2
    /\ Len(m_scriptCommands) >= 2
    /\ m_scriptCommands[2].commandType \in DelayKinds
    /\ ~ParsesAt(2)
    /\ ewhat = <<"stoi">>
    /\ EventsOf(1) # {}

\* C20: a delay command whose argument parses to a negative number makes
\* execute throw at that command: printDelayResult is not called with a
\* negative duration and no delay is made with one.
C20_NegativeDelayFails ==
    /\ \A i \in 1..Len(events) :
        events[i].op \in DelayOps \cup {"printDelayResult"} => events[i].n >= 0
    /\ \A k \in 1..Len(m_scriptCommands) :
        (/\ m_scriptCommands[k].commandType \in DelayKinds
         /\ ParsesAt(k)
         /\ DelayValueAt(k) < 0)
        => (it <= k /\ estatus # "returned")

\* execute went past the null check and the opening of the transport.
PastOpen ==
    \E j \in 1..Len(events) : events[j].op \in {"isOpen", "openPort"} /\ events[j].ok

IsUnspecified(c) == c.commandType = "COMMAND_UNSPECIFIED"

\* Every delay argument is a base-10 integer >= 0.
DelaysValid(s) ==
    \A i \in 1..Len(s) : s[i].commandType \in DelayKinds => ValidCount(s[i])

\* C21: a COMMAND_UNSPECIFIED command that is reached makes execute throw
\* the not-implemented error carrying that command's argument.  Stated for
\* scripts in which nothing else can fail first: loops balanced with counts
\* >= 1, delay arguments valid, no transport call failed.
C21_UnspecifiedFailsWithItsArgument ==
    (/\ EDone
     /\ PastOpen
     /\ ~oob
     /\ \E k \in 1..Len(udpCommands) : IsUnspecified(udpCommands[k])
     /\ Balanced(udpCommands)
     /\ \A i \in LoopStarts(udpCommands) :
           ValidCount(udpCommands[i]) /\ CountOf(udpCommands[i]) >= 1
     /\ DelaysValid(udpCommands)
     /\ \A j \in 1..Len(events) : events[j].ok \/ events[j].op = "isOpen")
    => /\ estatus = "threw"
       /\ \E k \in 1..Len(udpCommands) :
             /\ IsUnspecified(udpCommands[k])
             /\ ewhat = NotImplemented(udpCommands[k])

\* C22: on a well-formed script (loops properly nested, counts and delay
\* arguments integers >= 0, no COMMAND_UNSPECIFIED) no LOOP_START or
\* LOOP_END is in the list execute dispatches, and execute does not throw
\* the not-implemented error.
C22_NoMarkerReachesDispatch ==
    (/\ WellFormed(udpCommands)
     /\ DelaysValid(udpCommands)
     /\ ~oob)
    => /\ MarkerFree(m_scriptCommands)
       /\ ~(/\ EThrew
            /\ ewhat # <<>>
            /\ Head(ewhat) = "UDP_COMMAND_TYPE_NOT_IMPLEMENTED_STRING")

\* C23: isOpen is asked once, first; openPort is called only when it
\* answered false, right after it and before any command is dispatched;
\* when openPort fails execute throws its message, the script is not
\* expanded and nothing else happens.
C23_OpensClosedTransportFirst ==
    /\ \A j \in 1..Len(events) :
        /\ events[j].op = "isOpen" => j = 1
        /\ events[j].op = "openPort" => (j = 2 /\ ~events[1].ok)
        /\ events[j].at > 0
           => /\ events[1].op = "isOpen"
              /\ \/ events[1].ok
                 \/ (events[2].op = "openPort" /\ events[2].ok)
    /\ (events # <<>> /\ ~events[1].ok)
       => (Len(events) >= 2 /\ events[2].op = "openPort")
    /\ (Len(events) >= 2 /\ events[2].op = "openPort" /\ ~events[2].ok)
       => /\ EThrew
          /\ ewhat = <<"openPort">>
          /\ Len(events) = 2
          /\ pc = "idle"
          /\ m_scriptCommands = <<>>

\* openPort failed on a closed transport, with commands to dispatch.
C23_Witness ==
    /\ EThrew
    /\ Len(events) = 2
    /\ events[2].op = "openPort"
    /\ ~events[2].ok
    /\ Len(udpCommands) >= 2

\* The kind a flush command reports.
FlushKindOf(commandType) ==
    CASE commandType = "FLUSH_RX" -> "RX"
      [] commandType = "FLUSH_TX" -> "TX"
      [] commandType = "FLUSH_RX_TX" -> "RX_TX"

\* The transport flush of a flush command.
FlushPrimitiveOf(commandType) ==
    CASE commandType = "FLUSH_RX" -> "flushRX"
      [] commandType = "FLUSH_TX" -> "flushTX"
      [] commandType = "FLUSH_RX_TX" -> "flushRXTX"

\* C24: for a flush command printFlushResult is called once with the kind
\* of the command, and the transport flush of that kind is called right
\* after it; no flush is made without it.
C24_FlushReportedThenMade ==
    /\ \A k \in 1..Len(m_scriptCommands) :
        (m_scriptCommands[k].commandType \in FlushKinds /\ (k < it \/ EReturned))
        => Cardinality(OpsAt(k, "printFlushResult")) = 1
    /\ \A i \in 1..Len(events) :
        /\ events[i].op = "printFlushResult"
           => LET type == m_scriptCommands[events[i].at].commandType IN
              /\ type \in FlushKinds
              /\ events[i].arg = <<FlushKindOf(type)>>
              /\ i < Len(events)
              /\ events[i + 1].op = FlushPrimitiveOf(type)
              /\ events[i + 1].at = events[i].at
        /\ events[i].op \in FlushOps
           => /\ i > 1
              /\ events[i - 1].op = "printFlushResult"
              /\ events[i - 1].at = events[i].at

\* The three flush kinds were dispatched one after the other.
C24_Witness ==
    /\ EReturned
    /\ \E i, j, k \in 1..Len(events) :
          /\ events[i].op = "flushRX"
          /\ events[j].op = "flushTX"
          /\ events[k].op = "flushRXTX"

\* C25: a script that is one LOOP_START with count 0, a body holding a
\* delay whose argument is not a number, and the LOOP_END is expanded and
\* executed without error, and nothing is dispatched.
C25_DeadCodeIsNotValidated ==
    (/\ EDone
     /\ PastOpen
     /\ ~oob
     /\ SingleLoop(udpCommands)
     /\ StartOf(udpCommands) = 1
     /\ EndOf(udpCommands) = Len(udpCommands)
     /\ ValidCount(udpCommands[1])
     /\ CountOf(udpCommands[1]) = 0
     /\ \E k \in 2..(Len(udpCommands) - 1) :
           /\ udpCommands[k].commandType \in DelayKinds
           /\ ~Stoi(udpCommands[k].commandArgument).ok)
    => /\ EReturned
       /\ \A j \in 1..Len(events) : events[j].at = 0

\* C26: no step of doUnrollLoopCommands changes its argument udpCommands,
\* whether the call returns or fails; the result is built in
\* returnCommands.
C26_InputIsNotModified ==
    [][udpCommands' = udpCommands]_vars

\* A call failed after it had copied commands of a longer script.
C26_Witness ==
    /\ Threw
    /\ Len(returnCommands) >= 2
    /\ Len(udpCommands) >= 3

\* Calls made on the transport, whose answer is not execute's doing.
TransportOps ==
    {"isOpen", "openPort", "writeString", "readString"} \cup FlushOps

\* Two events are the same action of execute, whatever the transport
\* answered (the success of the call, the string read).
SameAction(a, b) ==
    /\ a.op = b.op
    /\ a.op \in TransportOps
    /\ a.at = b.at
    /\ a.n = b.n
    /\ (a.arg = b.arg \/ a.op = "readString")

\* C27: a second execute call on the same executor, script and transport
\* does what the first did for as long as the transport answers the same,
\* however the first call ended: the two event sequences are equal and the
\* calls end alike, or they first differ in an answer of the transport.
\* The list dispatched is always the one this call's expansion returned.
C27_SecondCallRepeatsFirst ==
    /\ (epc = "loop" \/ \E j \in 1..Len(events) : events[j].at > 0)
       => m_scriptCommands = returnCommands
    /\ (/\ previous # <<>>
        /\ EDone
        /\ estatus # "crashed"
        /\ ~oob
        /\ ~previous[1].oob)
       => LET a == previous[1].events
              b == events
              m == IF Len(a) < Len(b) THEN Len(a) ELSE Len(b)
              differ == {i \in 1..m : a[i] # b[i]}
          IN  IF differ = {}
              THEN /\ Len(a) = Len(b)
                   /\ estatus = previous[1].estatus
                   /\ ewhat = previous[1].ewhat
              ELSE LET d == CHOOSE i \in differ : \A j \in differ : i <= j
                   IN  SameAction(a[d], b[d])

\* The first call failed part-way through the script and the second call,
\* on the same script, went further and returned.
C27_Witness ==
    /\ previous # <<>>
    /\ previous[1].estatus = "threw"
    /\ Len(previous[1].events) >= 3
    /\ EReturned
    /\ Len(events) > Len(previous[1].events)

\* C28: on a well-formed script the iterator is dereferenced only inside
\* the vector and is never moved past end().
C28_ScanStaysInside ==
    WellFormed(udpCommands) => (~oob /\ iter <= End)

\* C29: execute never calls printLoopResult: every event is a transport
\* call, a delay or one of the four other observers.
C29_LoopObserverNeverCalled ==
    \A j \in 1..Len(events) :
        /\ events[j].op # "printLoopResult"
        /\ events[j].op \in TransportOps \cup DelayOps
              \cup {"printTxResult", "printRxResult", "printDelayResult", "printFlushResult"}

\* execute returned after dispatching the expansion of a script with a loop.
C29_Witness ==
    /\ EReturned
    /\ LoopStarts(udpCommands) # {}
    /\ \E j \in 1..Len(events) : events[j].at > 0

\* C30: nothing is dispatched before doUnrollLoopCommands has returned:
\* while it runs and after it failed the only events are isOpen and
\* openPort, which took place before it was called; when it throws,
\* execute throws the same message.
C30_ExpansionBeforeDispatch ==
    /\ status # "returned"
       => \A j \in 1..Len(events) :
             events[j].at = 0 /\ events[j].op \in {"isOpen", "openPort"}
    /\ pc # "idle" => PastOpen
    /\ (EDone /\ status = "threw") => (estatus = "threw" /\ ewhat = what)

\* doUnrollLoopCommands threw after copying commands, on a transport that
\* execute had opened.
C30_Witness ==
    /\ EThrew
    /\ status = "threw"
    /\ returnCommands # <<>>
    /\ Len(events) = 2
    /\ events[2].op = "openPort"

=============================================================================
